---- MODULE Spec2Model ----
(***************************************************************************)
(* Placeholder resolution engine of the prompt catalogue: toKey (the key   *)
(* normalizer), buildExpandedVars (alias expansion over ALIASES) and       *)
(* fillAcrossDelimiters (the template filler), together with the older     *)
(* applyVars / extractPlaceholders card of the earlier App variants.       *)
(*                                                                         *)
(* A JavaScript string is modelled as the sequence of its characters, each *)
(* character a one-character TLA+ string; "nbsp" stands for U+00A0 and     *)
(* "rsquo" for U+2019.                                                     *)
(***************************************************************************)
EXTENDS Integers, Sequences, FiniteSets, TLC

VARIABLES
  vars,      \* the Field Value Map: the object of its <<label, value>> entries
  parts,     \* the pieces the template was written from (history of body)
  body,      \* prompt.body, the template of the card
  filled,    \* the card's filled text (null until "Insert listing details")
  refilled,  \* fillAcrossDelimiters applied to its own output, else null
  missing,   \* the card's missing list (cards that compute one), else null
  expanded,  \* the map built by buildExpandedVars(vars) once computed, else null
  again,     \* buildExpandedVars applied to its own output, else null
  reordered, \* the expansion with the alias table walked in another order, else null
  str,       \* a string handed to toKey
  strVariant, \* str rewritten in case or whitespace only, else null
  strKey,    \* toKey(str) once computed, else null
  strVariantKey, \* toKey(strVariant) once computed, else null
  strRekey,  \* toKey applied to its own output, else null
  card,      \* which PromptCard the page renders, "none" without a page
  effectPending, \* the card's effect on [prompt.body, vars] is scheduled and has not run
  copier,    \* the file whose safeCopy runs, "none" without one
  writeText, \* navigator.clipboard.writeText: not called, absent, threw, pending, resolved, rejected
  execCommand, \* the textarea fallback: not called, true, false, threw, no document
  copyResult, \* what safeCopy's promise settled to: none, true, false, rejected
  copyText,  \* the text handed to safeCopy, else null
  clipboard, \* the text on the system clipboard, else null
  attached,  \* the fallback's textarea is a child of document.body
  alerted,   \* the manual-selection alert was shown
  rawPrompt, \* a record of the prompts dataset: its fields body, text and prompt
  promptBody, \* the body of the Prompt made from the record, else null
  pc         \* which operation produced the current state

\* the state of the engine runs, and the state outside them
engineVars == <<vars, parts, body, filled, refilled, missing, expanded, again, reordered>>
keyVars == <<str, strVariant, strKey, strVariantKey, strRekey>>
cardVars == <<card, effectPending>>
copyVars == <<copier, writeText, execCommand, copyResult, copyText, clipboard, attached, alerted>>
datasetVars == <<rawPrompt, promptBody>>
uiVars == <<cardVars, copyVars, datasetVars>>
outsideEngine == <<keyVars, uiVars>>

allvars == <<engineVars, outsideEngine, pc>>

(***************************************************************************)
(* Characters and strings                                                  *)
(***************************************************************************)

\* JavaScript's null / undefined: a value no string equals (no character of the
\* model is spelled this way).
null == <<"<null>">>
undefined == <<"<undefined>">>

\* a TypeError thrown by the call, in the place of its result
TypeError == <<"<TypeError>">>

NBSP == "nbsp"

RSQUO == "rsquo"

UpperCase == <<"A","B","C","D","E","F","G","H","I","J","K","L","M",
               "N","O","P","Q","R","S","T","U","V","W","X","Y","Z">>
LowerCase == <<"a","b","c","d","e","f","g","h","i","j","k","l","m",
               "n","o","p","q","r","s","t","u","v","w","x","y","z">>
Digits == {"0","1","2","3","4","5","6","7","8","9"}

\* String.prototype.toLowerCase on one character
ToLowerChar(c) ==
  IF \E i \in 1..26 : UpperCase[i] = c
  THEN LowerCase[CHOOSE i \in 1..26 : UpperCase[i] = c]
  ELSE c

\* the regular expression classes \w and \s, on the characters of the model
IsWordChar(c) ==
  \/ \E i \in 1..26 : LowerCase[i] = c \/ UpperCase[i] = c
  \/ c \in Digits
  \/ c = "_"

IsSpaceChar(c) == c \in {" ", "\t", "\n", NBSP}

\* "." of a regular expression without the s flag: any character but a line terminator
IsDot(c) == c # "\n"

\* String.prototype.trim
RECURSIVE TrimStart(_)
TrimStart(s) ==
  IF s # <<>> /\ IsSpaceChar(Head(s)) THEN TrimStart(Tail(s)) ELSE s

RECURSIVE TrimEnd(_)
TrimEnd(s) ==
  IF s # <<>> /\ IsSpaceChar(s[Len(s)]) THEN TrimEnd(SubSeq(s, 1, Len(s) - 1)) ELSE s

trim(s) == TrimEnd(TrimStart(s))

\* .replace(/\s+/g, " "): every maximal run of whitespace becomes one space
RECURSIVE CollapseSpaces(_)
CollapseSpaces(s) ==
  IF s = <<>> THEN <<>>
  ELSE IF IsSpaceChar(Head(s))
       THEN <<" ">> \o CollapseSpaces(TrimStart(s))
       ELSE <<Head(s)>> \o CollapseSpaces(Tail(s))

KeepsKeyChar(c) == IsWordChar(c) \/ IsSpaceChar(c) \/ c = "-"

\* toKey with the trim moved before the removal of punctuation
toKey_TrimsBeforeStrip(value) ==
  LET lowered == [i \in 1..Len(value) |-> ToLowerChar(value[i])]
      spaced  == [i \in 1..Len(lowered) |-> IF lowered[i] = NBSP THEN " " ELSE lowered[i]]
  IN  SelectSeq(trim(CollapseSpaces(spaced)), KeepsKeyChar)

\* toKey without .toLowerCase()
toKey_CaseKept(value) ==
  LET spaced   == [i \in 1..Len(value) |-> IF value[i] = NBSP THEN " " ELSE value[i]]
      stripped == SelectSeq(spaced, KeepsKeyChar)
  IN  trim(CollapseSpaces(stripped))

\* toKey: lower-case, nbsp -> space, drop [^\w\s-], collapse \s+, trim
toKey(value) ==
  LET lowered  == [i \in 1..Len(value) |-> ToLowerChar(value[i])]
      spaced   == [i \in 1..Len(lowered) |-> IF lowered[i] = NBSP THEN " " ELSE lowered[i]]
      stripped == SelectSeq(spaced, KeepsKeyChar)
  IN  trim(CollapseSpaces(stripped))

\* the words the source spells out (alias table, listing fields, example prompts)
W_number == <<"n", "u", "m", "b", "e", "r">>

W_of == <<"o", "f">>

W_bedrooms == <<"b", "e", "d", "r", "o", "o", "m", "s">>

W_beds == <<"b", "e", "d", "s">>

W_bathrooms == <<"b", "a", "t", "h", "r", "o", "o", "m", "s">>

W_baths == <<"b", "a", "t", "h", "s">>

W_unique == <<"u", "n", "i", "q", "u", "e">>

W_selling == <<"s", "e", "l", "l", "i", "n", "g">>

W_points == <<"p", "o", "i", "n", "t", "s">>

W_key == <<"k", "e", "y">>

W_features == <<"f", "e", "a", "t", "u", "r", "e", "s">>

W_property == <<"p", "r", "o", "p", "e", "r", "t", "y">>

W_type == <<"t", "y", "p", "e">>

W_ptype == <<"p", "t", "y", "p", "e">>

W_neighbourhood == <<"n", "e", "i", "g", "h", "b", "o", "u", "r", "h", "o", "o", "d">>

W_neighborhood == <<"n", "e", "i", "g", "h", "b", "o", "r", "h", "o", "o", "d">>

W_characteristics == <<"c", "h", "a", "r", "a", "c", "t", "e", "r", "i", "s", "t", "i", "c", "s">>

W_city == <<"c", "i", "t", "y">>

W_town == <<"t", "o", "w", "n">>

W_year == <<"y", "e", "a", "r">>

W_built == <<"b", "u", "i", "l", "t">>

W_yr == <<"y", "r">>

W_hoa == <<"h", "o", "a">>

W_fee == <<"f", "e", "e">>

W_fees == <<"f", "e", "e", "s">>

W_address == <<"a", "d", "d", "r", "e", "s", "s">>

W_sqft == <<"s", "q", "f", "t">>

W_price == <<"p", "r", "i", "c", "e">>

W_lot == <<"l", "o", "t">>

W_size == <<"s", "i", "z", "e">>

W_school == <<"s", "c", "h", "o", "o", "l">>

W_district == <<"d", "i", "s", "t", "r", "i", "c", "t">>

W_lifestyle == <<"l", "i", "f", "e", "s", "t", "y", "l", "e">>

W_benefits == <<"b", "e", "n", "e", "f", "i", "t", "s">>

W_word == <<"w", "o", "r", "d">>

W_count == <<"c", "o", "u", "n", "t">>

W_date == <<"d", "a", "t", "e">>

W_start == <<"s", "t", "a", "r", "t">>

W_time == <<"t", "i", "m", "e">>

W_end == <<"e", "n", "d">>

W_lead == <<"l", "e", "a", "d">>

W_source == <<"s", "o", "u", "r", "c", "e">>

W_state == <<"s", "t", "a", "t", "e">>

W_cars == <<"c", "a", "r", "s">>

W_car == <<"c", "a", "r">>

W_in == <<"i", "n">>

W_with == <<"w", "i", "t", "h">>

SP == <<" ">>

\* words joined by single spaces
RECURSIVE Phrase(_)
Phrase(ws) ==
  IF ws = <<>> THEN <<>>
  ELSE IF Len(ws) = 1 THEN ws[1]
  ELSE ws[1] \o SP \o Phrase(Tail(ws))


(***************************************************************************)
(* JavaScript objects used as string maps                                  *)
(***************************************************************************)

\* An object used as a string map is the sequence of its own <<key, value>>
\* properties in insertion order (the order of Object.keys), no key twice.  Every
\* such object inherits from Object.prototype; after toKey only two inherited
\* names can be spelled, "constructor" and "__proto__", and their values are
\* given by the strings they coerce to.
KeyConstructor == <<"c","o","n","s","t","r","u","c","t","o","r">>
KeyProto == <<"_","_","p","r","o","t","o","_","_">>

ObjectPrototype ==
  << <<KeyConstructor,
       <<"f","u","n","c","t","i","o","n"," ","O","b","j","e","c","t","(",")"," ",
         "{"," ","[","n","a","t","i","v","e"," ","c","o","d","e","]"," ","}">> >>,
     <<KeyProto,
       <<"[","o","b","j","e","c","t"," ","O","b","j","e","c","t","]">> >> >>

EmptyObject == <<>>

\* Object.prototype.hasOwnProperty
HasOwn(obj, k) == \E n \in 1..Len(obj) : obj[n][1] = k

Own(obj, k) == obj[CHOOSE n \in 1..Len(obj) : obj[n][1] = k][2]

\* obj[k]
Get(obj, k) ==
  IF HasOwn(obj, k) THEN Own(obj, k)
  ELSE IF HasOwn(ObjectPrototype, k) THEN Own(ObjectPrototype, k)
  ELSE undefined

\* obj[k] = v, v a string: an own key keeps its place, a new key goes last, and
\* assigning a string to __proto__ is ignored
Put(obj, k, v) ==
  IF k = KeyProto THEN obj
  ELSE IF HasOwn(obj, k)
       THEN LET n == CHOOSE m \in 1..Len(obj) : obj[m][1] = k
            IN  SubSeq(obj, 1, n - 1) \o <<<<k, v>>>> \o SubSeq(obj, n + 1, Len(obj))
       ELSE Append(obj, <<k, v>>)

\* the own properties of an object, as a set: two objects are the same map when
\* these are equal
Properties(obj) == { obj[n] : n \in 1..Len(obj) }

Keys(obj) == { obj[n][1] : n \in 1..Len(obj) }

\* the truthiness of a string or undefined
Truthy(x) == x # undefined /\ x # null /\ x # <<>>

(***************************************************************************)
(* The alias table and buildExpandedVars                                   *)
(***************************************************************************)

\* ALIASES, in the order Object.keys returns its entries (insertion order)
ALIASES ==
  << [canonical |-> Phrase(<<W_number, W_of, W_bedrooms>>),
      aliases   |-> <<W_bedrooms, W_beds>>],
     [canonical |-> Phrase(<<W_number, W_of, W_bathrooms>>),
      aliases   |-> <<W_bathrooms, W_baths>>],
     [canonical |-> Phrase(<<W_unique, W_selling, W_points>>),
      aliases   |-> <<Phrase(<<W_key, W_features>>), W_features>>],
     [canonical |-> Phrase(<<W_property, W_type>>),
      aliases   |-> <<W_type, W_ptype>>],
     [canonical |-> W_neighbourhood,
      aliases   |-> <<W_neighborhood>>],
     [canonical |-> Phrase(<<W_neighbourhood, W_characteristics>>),
      aliases   |-> <<Phrase(<<W_neighborhood, W_characteristics>>)>>],
     [canonical |-> W_city \o <<"/">> \o W_town,
      aliases   |-> <<W_city>>],
     [canonical |-> Phrase(<<W_year, W_built>>),
      aliases   |-> <<Phrase(<<W_built, W_year>>), Phrase(<<W_yr, W_built>>)>>],
     [canonical |-> Phrase(<<W_hoa, W_fee>>),
      aliases   |-> <<W_hoa, Phrase(<<W_hoa, W_fees>>)>>],
     [canonical |-> Phrase(<<W_hoa, W_fees>>),
      aliases   |-> <<Phrase(<<W_hoa, W_fee>>), W_hoa>>] >>

\* Object.keys(ALIASES), as positions in the table
AliasOrder == [i \in 1..Len(ALIASES) |-> i]

\* toKey(canonical) and toKey(alias) for every entry, as the loops compute them
AliasKeys ==
  [i \in 1..Len(ALIASES) |->
     [canonicalKey |-> toKey(ALIASES[i].canonical),
      aliasKeys    |-> [j \in 1..Len(ALIASES[i].aliases) |-> toKey(ALIASES[i].aliases[j])]]]

\* In the loops below a comparison "next = next" stands before each descent: it
\* makes TLC compute the iteration's result before the following iteration starts.

\* first loop of buildExpandedVars: the non-blank entries under their keys, last write wins
RECURSIVE NormalizeEntries(_, _)
NormalizeEntries(base, entries) ==
  IF entries = <<>> THEN base
  ELSE LET key   == Head(entries)[1]
           value == trim(Head(entries)[2])
           next  == IF ~Truthy(value) THEN base ELSE Put(base, toKey(key), value)
       IN  IF next = next THEN NormalizeEntries(next, Tail(entries)) ELSE next

\* the value of the first alias that has one (the inner loop with its break)
RECURSIVE FirstAliasValue(_, _)
FirstAliasValue(base, aliasKeys) ==
  IF aliasKeys = <<>> THEN undefined
  ELSE IF Truthy(Get(base, Head(aliasKeys))) THEN Get(base, Head(aliasKeys))
  ELSE FirstAliasValue(base, Tail(aliasKeys))

\* the value of the last alias that has one
RECURSIVE LastAliasValue(_, _)
LastAliasValue(base, aliasKeys) ==
  IF aliasKeys = <<>> THEN undefined
  ELSE IF Truthy(Get(base, aliasKeys[Len(aliasKeys)])) THEN Get(base, aliasKeys[Len(aliasKeys)])
  ELSE LastAliasValue(base, SubSeq(aliasKeys, 1, Len(aliasKeys) - 1))

\* variant: the inner loop has no break, so that the last alias with a value wins
AliasToCanonical_LastAlias(base, i) ==
  LET canonicalKey == AliasKeys[i].canonicalKey
      aliasValue   == LastAliasValue(base, AliasKeys[i].aliasKeys)
  IN  IF ~Truthy(Get(base, canonicalKey)) /\ Truthy(aliasValue)
      THEN Put(base, canonicalKey, aliasValue)
      ELSE base

\* variant: the loop leaves every canonical slot as it found it
AliasToCanonical_Skipped(base, i) == base

\* variant: the guard "if (!base[canonicalKey])" is dropped
AliasToCanonical_Overwriting(base, i) ==
  LET aliasValue == FirstAliasValue(base, AliasKeys[i].aliasKeys)
  IN  IF Truthy(aliasValue) THEN Put(base, AliasKeys[i].canonicalKey, aliasValue) ELSE base

\* one iteration of the alias -> canonical loop
AliasToCanonical(base, i) ==
  LET canonicalKey == AliasKeys[i].canonicalKey
      aliasValue   == FirstAliasValue(base, AliasKeys[i].aliasKeys)
  IN  IF ~Truthy(Get(base, canonicalKey)) /\ Truthy(aliasValue)
      THEN Put(base, canonicalKey, aliasValue)
      ELSE base

\* the inner loop of the canonical -> alias loop
RECURSIVE FillAliases(_, _, _)
FillAliases(base, aliasKeys, canonicalValue) ==
  IF aliasKeys = <<>> THEN base
  ELSE LET aliasKey == Head(aliasKeys)
           next     == IF ~Truthy(Get(base, aliasKey))
                       THEN Put(base, aliasKey, canonicalValue)
                       ELSE base
       IN  IF next = next THEN FillAliases(next, Tail(aliasKeys), canonicalValue) ELSE next

\* variant: the loop leaves every alias slot as it found it
CanonicalToAlias_Skipped(base, i) == base

\* one iteration of the canonical -> alias loop
CanonicalToAlias(base, i) ==
  LET canonicalValue == Get(base, AliasKeys[i].canonicalKey)
  IN  IF ~Truthy(canonicalValue) THEN base
      ELSE FillAliases(base, AliasKeys[i].aliasKeys, canonicalValue)

RECURSIVE AliasToCanonicalPass(_, _)
AliasToCanonicalPass(base, order) ==
  IF order = <<>> THEN base
  ELSE LET next == AliasToCanonical(base, Head(order))
       IN  IF next = next THEN AliasToCanonicalPass(next, Tail(order)) ELSE next

RECURSIVE CanonicalToAliasPass(_, _)
CanonicalToAliasPass(base, order) ==
  IF order = <<>> THEN base
  ELSE LET next == CanonicalToAlias(base, Head(order))
       IN  IF next = next THEN CanonicalToAliasPass(next, Tail(order)) ELSE next

\* buildExpandedVars with the two loops over the table walked in the given orders
ExpandInOrder(entries, order1, order2) ==
  LET base == NormalizeEntries(EmptyObject, entries)
      next == IF base = base THEN AliasToCanonicalPass(base, order1) ELSE base
  IN  IF next = next THEN CanonicalToAliasPass(next, order2) ELSE next

\* variant: the canonical -> alias loop runs before the alias -> canonical loop
buildExpandedVars_LoopsExchanged(entries) ==
  LET base == NormalizeEntries(EmptyObject, entries)
      next == IF base = base THEN CanonicalToAliasPass(base, AliasOrder) ELSE base
  IN  IF next = next THEN AliasToCanonicalPass(next, AliasOrder) ELSE next

\* variant: the first loop is a plain copy, { ...vars }, without toKey and trim
buildExpandedVars_CopiedEntries(entries) ==
  LET next == AliasToCanonicalPass(entries, AliasOrder)
  IN  IF next = next THEN CanonicalToAliasPass(next, AliasOrder) ELSE next

buildExpandedVars(entries) == ExpandInOrder(entries, AliasOrder, AliasOrder)


(***************************************************************************)
(* fillAcrossDelimiters                                                    *)
(***************************************************************************)

\* PLACEHOLDER_PATTERNS: /open(.+?)close/g for the five delimiter styles, in order
PLACEHOLDER_PATTERNS ==
  << [open |-> <<"[">>,      close |-> <<"]">>],
     [open |-> <<"{", "{">>, close |-> <<"}", "}">>],
     [open |-> <<"{">>,      close |-> <<"}">>],
     [open |-> <<"<">>,      close |-> <<">">>],
     [open |-> <<"(">>,      close |-> <<")">>] >>

\* text has the literal p at position i
HasAt(text, i, p) ==
  /\ i >= 1
  /\ i + Len(p) - 1 <= Len(text)
  /\ SubSeq(text, i, i + Len(p) - 1) = p

\* (.+?) followed by close, the group starting at position s: the position of the
\* nearest close that leaves at least one character, none of them a line
\* terminator, in the group; 0 when there is none.  j is the candidate position.
RECURSIVE MatchClose(_, _, _)
MatchClose(text, j, close) ==
  IF j - 1 > Len(text) \/ ~IsDot(text[j - 1]) THEN 0
  ELSE IF HasAt(text, j, close) THEN j
  ELSE MatchClose(text, j + 1, close)

\* variant: the looked-up value is trimmed before it is tested, as in
\* expanded[key].trim(), which throws a TypeError on a key without a value
Resolve_TrimsLookup(raw, expandedMap) ==
  LET key == toKey(raw)
  IN  IF Get(expandedMap, key) = undefined THEN TypeError
      ELSE IF Truthy(trim(Get(expandedMap, key))) THEN Get(expandedMap, key)
      ELSE <<"[">> \o raw \o <<"]">>

\* variant: an unresolved occurrence is re-wrapped as its normalized key
Resolve_RewrapsKey(raw, expandedMap) ==
  LET key == toKey(raw)
  IN  IF Truthy(Get(expandedMap, key)) THEN Get(expandedMap, key)
      ELSE <<"[">> \o key \o <<"]">>

\* the callback of the delimiter passes
Resolve(raw, expandedMap) ==
  LET key == toKey(raw)
  IN  IF Truthy(Get(expandedMap, key)) THEN Get(expandedMap, key)
      ELSE <<"[">> \o raw \o <<"]">>

\* text.replace(pattern, callback) from position i on: leftmost matches, left to
\* right, the scan resuming after each match; replacements are not scanned again
RECURSIVE ReplacePattern(_, _, _, _)
ReplacePattern(text, i, pattern, expandedMap) ==
  IF i > Len(text) THEN <<>>
  ELSE LET s == i + Len(pattern.open)
           j == IF HasAt(text, i, pattern.open) /\ s <= Len(text)
                THEN MatchClose(text, s + 1, pattern.close)
                ELSE 0
       IN  IF j = 0
           THEN <<text[i]>> \o ReplacePattern(text, i + 1, pattern, expandedMap)
           ELSE Resolve(SubSeq(text, s, j - 1), expandedMap)
                \o ReplacePattern(text, j + Len(pattern.close), pattern, expandedMap)

\* the for loop over PLACEHOLDER_PATTERNS, from pattern number n on
RECURSIVE DelimiterPasses(_, _, _)
DelimiterPasses(text, n, expandedMap) ==
  IF n > Len(PLACEHOLDER_PATTERNS) THEN text
  ELSE LET next == ReplacePattern(text, 1, PLACEHOLDER_PATTERNS[n], expandedMap)
       IN  IF next = next THEN DelimiterPasses(next, n + 1, expandedMap) ELSE next

NumberOf == Phrase(<<W_number, W_of>>) \o SP

\* the literal "number of " of a pattern with the i flag, at position i
HasNumberOfAt(text, i) ==
  /\ i >= 1
  /\ i + Len(NumberOf) - 1 <= Len(text)
  /\ [k \in 1..Len(NumberOf) |-> ToLowerChar(text[i + k - 1])] = NumberOf

\* baseKey.replace(/s\b/, ""): the first "s" that ends a word is removed
RECURSIVE DropFinalS(_, _)
DropFinalS(key, p) ==
  IF p > Len(key) THEN key
  ELSE IF key[p] = "s" /\ (p = Len(key) \/ ~IsWordChar(key[p + 1]))
       THEN SubSeq(key, 1, p - 1) \o SubSeq(key, p + 1, Len(key))
       ELSE DropFinalS(key, p + 1)

RECURSIVE FirstCandidate(_, _, _)
FirstCandidate(variations, expandedMap, raw) ==
  IF variations = <<>> THEN <<"[">> \o raw \o <<"]">>
  ELSE IF Truthy(Get(expandedMap, Head(variations))) THEN Get(expandedMap, Head(variations))
  ELSE FirstCandidate(Tail(variations), expandedMap, raw)

\* the callback of the "number of" pass
ResolveNumberOf(raw, expandedMap) ==
  LET matches == /\ HasNumberOfAt(raw, 1)
                 /\ Len(raw) > Len(NumberOf)
                 /\ \A k \in (Len(NumberOf) + 1)..Len(raw) : IsDot(raw[k])
  IN  IF ~matches THEN <<"[">> \o raw \o <<"]">>
      ELSE LET baseKey    == toKey(SubSeq(raw, Len(NumberOf) + 1, Len(raw)))
               variations == << baseKey,
                                DropFinalS(baseKey, 1),
                                DropFinalS(baseKey, 1) \o <<"s">> >>
           IN  FirstCandidate(variations, expandedMap, raw)

\* text.replace(/\[(number of .+?)\]/gi, callback) from position i on
RECURSIVE ReplaceNumberOf(_, _, _)
ReplaceNumberOf(text, i, expandedMap) ==
  IF i > Len(text) THEN <<>>
  ELSE LET s == i + 1 + Len(NumberOf)
           j == IF HasAt(text, i, <<"[">>) /\ HasNumberOfAt(text, i + 1) /\ s <= Len(text)
                THEN MatchClose(text, s + 1, <<"]">>)
                ELSE 0
       IN  IF j = 0
           THEN <<text[i]>> \o ReplaceNumberOf(text, i + 1, expandedMap)
           ELSE ResolveNumberOf(SubSeq(text, i + 1, j - 1), expandedMap)
                \o ReplaceNumberOf(text, j + 1, expandedMap)

\* variant: the pass over "[number of ...]" is left out
fillAcrossDelimiters_LoopOnly(template, expandedMap) ==
  DelimiterPasses(template, 1, expandedMap)

\* variant: the fill starts from the text the card shows, when it shows one,
\* and not from the template it was handed
fillAcrossDelimiters_FromShownText(template, expandedMap) ==
  LET next == DelimiterPasses(IF filled = null THEN template ELSE filled, 1, expandedMap)
  IN  IF next = next THEN ReplaceNumberOf(next, 1, expandedMap) ELSE next

fillAcrossDelimiters(template, expandedMap) ==
  LET next == DelimiterPasses(template, 1, expandedMap)
  IN  IF next = next THEN ReplaceNumberOf(next, 1, expandedMap) ELSE next


(***************************************************************************)
(* The card of the earlier App variants: applyVars, extractPlaceholders    *)
(***************************************************************************)

\* PH_RE = /\[(.+?)\]/g
PH_RE == PLACEHOLDER_PATTERNS[1]

\* the groups m[1] of s.matchAll(PH_RE), in order
RECURSIVE MatchAll(_, _)
MatchAll(text, i) ==
  IF i > Len(text) THEN <<>>
  ELSE LET s == i + Len(PH_RE.open)
           j == IF HasAt(text, i, PH_RE.open) /\ s <= Len(text)
                THEN MatchClose(text, s + 1, PH_RE.close)
                ELSE 0
       IN  IF j = 0 THEN MatchAll(text, i + 1)
           ELSE <<SubSeq(text, s, j - 1)>> \o MatchAll(text, j + Len(PH_RE.close))

\* Array.from(new Set(xs)): the first occurrence of each element, in order
RECURSIVE Distinct(_)
Distinct(xs) ==
  IF xs = <<>> THEN <<>>
  ELSE LET front == Distinct(SubSeq(xs, 1, Len(xs) - 1))
           x     == xs[Len(xs)]
       IN  IF \E n \in 1..Len(front) : front[n] = x THEN front ELSE Append(front, x)

\* variant: the matches are not passed through a Set
extractPlaceholders_EveryMatch(text) == MatchAll(text, 1)

extractPlaceholders(text) == Distinct(MatchAll(text, 1))

\* s.replace(PH_RE, (_, k) => vars[k] ?? `[${k}]`)
RECURSIVE applyVarsFrom(_, _, _)
applyVarsFrom(text, i, obj) ==
  IF i > Len(text) THEN <<>>
  ELSE LET s == i + Len(PH_RE.open)
           j == IF HasAt(text, i, PH_RE.open) /\ s <= Len(text)
                THEN MatchClose(text, s + 1, PH_RE.close)
                ELSE 0
           k == SubSeq(text, s, j - 1)
       IN  IF j = 0
           THEN <<text[i]>> \o applyVarsFrom(text, i + 1, obj)
           ELSE (IF Get(obj, k) # undefined THEN Get(obj, k) ELSE <<"[">> \o k \o <<"]">>)
                \o applyVarsFrom(text, j + Len(PH_RE.close), obj)

applyVars(text, entries) == applyVarsFrom(text, 1, entries)

\* extractPlaceholders(p.body).filter(k => !vars[k]?.trim()); an inherited
\* property is no string and has no trim: the call throws a TypeError

cardMissing(text, entries) ==
  LET obj  == entries
      keys == extractPlaceholders(text)
      Blank(k) == ~Truthy(IF Get(obj, k) = undefined THEN undefined ELSE trim(Get(obj, k)))
  IN  IF \E n \in 1..Len(keys) : ~HasOwn(obj, keys[n]) /\ HasOwn(ObjectPrototype, keys[n])
      THEN TypeError
      ELSE SelectSeq(keys, Blank)


(***************************************************************************)
(* toKey on its own: every string of at most MaxChars characters over      *)
(* KeyAlphabet, normalized, normalized again, and normalized next to a     *)
(* rewriting of it in letter case or whitespace only                       *)
(***************************************************************************)
MaxChars == 3

\* a lower-case and an upper-case letter, the three kinds of whitespace, a
\* kept and a dropped punctuation character
KeyAlphabet == {"a", "B", " ", NBSP, "\t", "-", "/"}

WhiteSpace == {c \in KeyAlphabet : IsSpaceChar(c)}

Strings(n) == UNION {[1..m -> KeyAlphabet] : m \in 0..n}

\* no engine run in progress
EngineIdle ==
  /\ vars = <<>>
  /\ parts = <<>>
  /\ body = <<>>
  /\ filled = null
  /\ refilled = null
  /\ missing = null
  /\ expanded = null
  /\ again = null
  /\ reordered = null

\* no string handed to toKey on its own
KeyIdle ==
  /\ str = null
  /\ strVariant = null
  /\ strKey = null
  /\ strVariantKey = null
  /\ strRekey = null

\* no card on the page
CardIdle ==
  /\ card = "none"
  /\ effectPending = FALSE

\* no copy under way
CopyIdle ==
  /\ copier = "none"
  /\ writeText = "not called"
  /\ execCommand = "not called"
  /\ copyResult = "none"
  /\ copyText = null
  /\ clipboard = null
  /\ attached = FALSE
  /\ alerted = FALSE

\* no dataset record being read
DatasetIdle ==
  /\ rawPrompt = null
  /\ promptBody = null

UiIdle == CardIdle /\ CopyIdle /\ DatasetIdle

OutsideEngineIdle == KeyIdle /\ UiIdle

InitKey ==
  /\ str \in Strings(MaxChars)
  /\ strVariant = null
  /\ strKey = null
  /\ strVariantKey = null
  /\ strRekey = null
  /\ EngineIdle
  /\ UiIdle
  /\ pc = "string"

\* String.prototype.toUpperCase on one character
ToUpperChar(c) ==
  IF \E i \in 1..26 : LowerCase[i] = c
  THEN UpperCase[CHOOSE i \in 1..26 : LowerCase[i] = c]
  ELSE c

IsLetter(c) == \E i \in 1..26 : LowerCase[i] = c \/ UpperCase[i] = c

\* the same string with the letter at position i in the other case
Recase(i) ==
  /\ pc = "string" /\ strVariant = null
  /\ IsLetter(str[i])
  /\ strVariant' = [str EXCEPT ![i] = IF ToLowerChar(@) = @ THEN ToUpperChar(@) ELSE ToLowerChar(@)]
  /\ UNCHANGED <<engineVars, uiVars, str, strKey, strVariantKey, strRekey, pc>>

\* the same string with a regular space for a non-breaking one, or the reverse
Respace(i) ==
  /\ pc = "string" /\ strVariant = null
  /\ str[i] \in {" ", NBSP}
  /\ strVariant' = [str EXCEPT ![i] = IF @ = NBSP THEN " " ELSE NBSP]
  /\ UNCHANGED <<engineVars, uiVars, str, strKey, strVariantKey, strRekey, pc>>

\* the same string with the whitespace run at position i one character longer
Lengthen(i, c) ==
  /\ pc = "string" /\ strVariant = null
  /\ IsSpaceChar(str[i])
  /\ strVariant' = SubSeq(str, 1, i) \o <<c>> \o SubSeq(str, i + 1, Len(str))
  /\ UNCHANGED <<engineVars, uiVars, str, strKey, strVariantKey, strRekey, pc>>

\* the same string with one more whitespace character in front or at the end
Pad(c, front) ==
  /\ pc = "string" /\ strVariant = null
  /\ strVariant' = IF front THEN <<c>> \o str ELSE str \o <<c>>
  /\ UNCHANGED <<engineVars, uiVars, str, strKey, strVariantKey, strRekey, pc>>

\* toKey(str), and toKey of the rewriting when there is one
Normalize ==
  /\ pc = "string"
  /\ strKey' = toKey(str)
  /\ strVariantKey' = IF strVariant = null THEN null ELSE toKey(strVariant)
  /\ pc' = "key"
  /\ UNCHANGED <<engineVars, uiVars, str, strVariant, strRekey>>

\* toKey on its own output
NormalizeAgain ==
  /\ pc = "key"
  /\ strRekey' = toKey(strKey)
  /\ pc' = "rekey"
  /\ UNCHANGED <<engineVars, uiVars, str, strVariant, strKey, strVariantKey>>

NextKey ==
  \/ \E i \in 1..MaxChars : i <= Len(str) /\ Recase(i)
  \/ \E i \in 1..MaxChars : i <= Len(str) /\ Respace(i)
  \/ \E i \in 1..MaxChars, c \in WhiteSpace : i <= Len(str) /\ Lengthen(i, c)
  \/ \E c \in WhiteSpace, front \in BOOLEAN : Pad(c, front)
  \/ Normalize
  \/ NormalizeAgain

SpecKey == InitKey /\ [][NextKey]_allvars

\* C14: toKey is idempotent: normalizing a key that toKey produced gives
\* the same key again, for every string
C14_NormalizeIdempotent ==
  pc = "rekey" => strRekey = strKey

\* a string that normalization changes, normalized twice
C14_Witness ==
  /\ pc = "rekey"
  /\ str = <<"/", " ", "B">>
  /\ strKey = <<"b">>
  /\ strRekey = <<"b">>

\* C15: two strings that differ only in the case of a letter, in a regular
\* against a non-breaking space, in the length of a whitespace run or in
\* leading or trailing whitespace have the same key
C15_CaseAndSpaceInsensitive ==
  (pc \in {"key", "rekey"} /\ strVariant # null) => strVariantKey = strKey

\* "a B" against "a", non-breaking space, "B": one key, "a b"
C15_Witness ==
  /\ pc = "key"
  /\ str = <<"a", " ", "B">>
  /\ strVariant = <<"a", NBSP, "B">>
  /\ strKey = <<"a", " ", "b">>
  /\ strVariantKey = strKey

(***************************************************************************)
(* Expansion of bounded Field Value Maps                                   *)
(***************************************************************************)

MaxFields == 2

\* every name of the alias table as the source spells it
RECURSIVE TableNames(_)
TableNames(n) ==
  IF n = 0 THEN <<>>
  ELSE TableNames(n - 1) \o <<ALIASES[n].canonical>> \o ALIASES[n].aliases

\* the labels a Field Value Map is drawn from, in form order: the names of the
\* alias table, a capitalised spelling of one of them, and a field outside the table
Labels ==
  Distinct(TableNames(Len(ALIASES)))
  \o << <<"B">> \o Tail(W_beds), W_price >>

\* a value, a value to be trimmed, and a blank value
FieldValues == { <<"3">>, <<"4", " ">>, <<" ">> }

\* the position of the last label of a map in Labels (0 for the empty map)
LastLabel(entries) ==
  IF entries = <<>> THEN 0
  ELSE CHOOSE n \in 1..Len(Labels) : Labels[n] = entries[Len(entries)][1]

\* orders in which the table may be walked instead of Object.keys order:
\* the whole table reversed, or its first entry moved to the end
Reversed == [i \in 1..Len(ALIASES) |-> Len(ALIASES) + 1 - i]

Rotated == [i \in 1..Len(ALIASES) |-> IF i = Len(ALIASES) THEN 1 ELSE i + 1]

Orders == { Reversed, Rotated }

InitExpand ==
  /\ vars = <<>>
  /\ parts = <<>>
  /\ body = <<>>
  /\ filled = null
  /\ refilled = null
  /\ missing = null
  /\ expanded = null
  /\ again = null
  /\ reordered = null
  /\ pc = "fields"
  /\ OutsideEngineIdle

\* the Field Value Map to be expanded gains an entry, in the order of Labels
SetField(n, value) ==
  /\ pc = "fields"
  /\ Len(vars) < MaxFields
  /\ n > LastLabel(vars)
  /\ vars' = Append(vars, <<Labels[n], value>>)
  /\ UNCHANGED <<parts, body, filled, refilled, missing, expanded, again, reordered, pc>>
  /\ UNCHANGED outsideEngine

\* useMemo(() => buildExpandedVars(vars), [vars])
Expand ==
  /\ pc = "fields"
  /\ expanded' = buildExpandedVars(vars)
  /\ pc' = "expanded"
  /\ UNCHANGED <<vars, parts, body, filled, refilled, missing, again, reordered>>
  /\ UNCHANGED outsideEngine

\* buildExpandedVars on its own output
ExpandAgain ==
  /\ pc = "expanded"
  /\ again' = buildExpandedVars(expanded)
  /\ pc' = "again"
  /\ UNCHANGED <<vars, parts, body, filled, refilled, missing, expanded, reordered>>
  /\ UNCHANGED outsideEngine

\* buildExpandedVars with both loops walking the table in another order
ExpandReordered(order) ==
  /\ pc = "expanded"
  /\ reordered' = ExpandInOrder(vars, order, order)
  /\ pc' = "reordered"
  /\ UNCHANGED <<vars, parts, body, filled, refilled, missing, expanded, again>>
  /\ UNCHANGED outsideEngine

NextExpand ==
  \/ \E n \in 1..Len(Labels), value \in FieldValues : SetField(n, value)
  \/ Expand
  \/ ExpandAgain
  \/ \E order \in Orders : ExpandReordered(order)

SpecExpand == InitExpand /\ [][NextExpand]_allvars

(***************************************************************************)
(* Properties of the expansion                                             *)
(***************************************************************************)

\* the normalized names of alias group i: its canonical key and its alias keys
GroupKeys(i) ==
  {AliasKeys[i].canonicalKey}
  \cup { AliasKeys[i].aliasKeys[j] : j \in 1..Len(AliasKeys[i].aliasKeys) }

\* what a Field Value Map says by itself: its entries with the label normalized
\* and the value trimmed, in the order of the map
RECURSIVE Given(_)
Given(entries) ==
  IF entries = <<>> THEN <<>>
  ELSE LET e == entries[Len(entries)]
       IN  Append(Given(SubSeq(entries, 1, Len(entries) - 1)), <<toKey(e[1]), trim(e[2])>>)

\* the value the given entries hold for a normalized name: the value of the last
\* non-blank entry under that key, else undefined
RECURSIVE ExplicitValue(_, _)
ExplicitValue(given, key) ==
  IF given = <<>> THEN undefined
  ELSE LET e == given[Len(given)]
       IN  IF e[1] = key /\ e[2] # <<>> THEN e[2]
           ELSE ExplicitValue(SubSeq(given, 1, Len(given) - 1), key)

\* the members of group i the given entries hold a value for
Valued(given, i) == { m \in GroupKeys(i) : ExplicitValue(given, m) # undefined }

\* no two labels of the map normalize to the same key
DistinctKeys(given) ==
  \A m, n \in 1..Len(given) : given[m][1] = given[n][1] => m = n

\* C1: when exactly one member of an alias group has a non-empty value v in the
\* Field Value Map, the expanded map holds v under the canonical key and under
\* every alias key of that group.
C1_PropagatesBothDirections ==
  pc = "expanded" =>
    LET given == Given(vars)
    IN  \A i \in 1..Len(ALIASES) :
          Cardinality(Valued(given, i)) = 1 =>
            LET v == ExplicitValue(given, CHOOSE m \in Valued(given, i) : TRUE)
            IN  \A m \in GroupKeys(i) : Get(expanded, m) = v

\* {beds: 3} has been expanded: "number of bedrooms", bedrooms and beds are all 3
C1_Witness ==
  /\ pc = "expanded"
  /\ vars = << <<W_beds, <<"3">> >> >>
  /\ Get(expanded, Phrase(<<W_number, W_of, W_bedrooms>>)) = <<"3">>
  /\ Get(expanded, W_bedrooms) = <<"3">>
  /\ Get(expanded, W_beds) = <<"3">>

\* C2: every label with a non-empty trimmed value v keeps v under its normalized
\* key in the expanded map (no two labels normalizing to the same key), whatever
\* the other members of its alias groups carry.
C2_NeverOverwritesExplicit ==
  pc = "expanded" =>
    LET given == Given(vars)
    IN  DistinctKeys(given) =>
          \A n \in 1..Len(given) :
            given[n][2] # <<>> => Get(expanded, given[n][1]) = given[n][2]

\* {bedrooms: 3, beds: "4 "} has been expanded: bedrooms stays 3, beds stays 4,
\* and the canonical name took the value of the first alias
C2_Witness ==
  /\ pc = "expanded"
  /\ vars = << <<W_bedrooms, <<"3">> >>, <<W_beds, <<"4", " ">> >> >>
  /\ Get(expanded, W_bedrooms) = <<"3">>
  /\ Get(expanded, W_beds) = <<"4">>
  /\ Get(expanded, Phrase(<<W_number, W_of, W_bedrooms>>)) = <<"3">>

\* C3: for every alias group with at least one member valued in the Field Value
\* Map, there is one value that every member of the group has in the expanded
\* map, except the members that keep their own explicit value.
C3_GroupInvariant ==
  pc = "expanded" =>
    LET given == Given(vars)
    IN  \A i \in 1..Len(ALIASES) :
          Valued(given, i) # {} =>
            \E src \in Valued(given, i) :
              \A m \in GroupKeys(i) :
                \/ Get(expanded, m) = ExplicitValue(given, src)
                \/ /\ m \in Valued(given, i)
                   /\ Get(expanded, m) = ExplicitValue(given, m)

\* {number of bathrooms: 3, baths: "4 "} has been expanded: the unvalued member
\* bathrooms took the group's value 3 while baths keeps its own 4
C3_Witness ==
  /\ pc = "expanded"
  /\ vars = << <<Phrase(<<W_number, W_of, W_bathrooms>>), <<"3">> >>,
               <<W_baths, <<"4", " ">> >> >>
  /\ Get(expanded, W_bathrooms) = <<"3">>
  /\ Get(expanded, W_baths) = <<"4">>

\* C4: walking the entries of the alias table in any order, in both loops, yields
\* the same expanded map as the declared order.
C4_OrderIndependent ==
  pc = "reordered" => Properties(reordered) = Properties(expanded)

\* C5: no normalized name appears in the alias list of two different canonical
\* entries of the alias table the expansion has walked.
C5_AliasListsDisjoint ==
  pc = "expanded" =>
    \A i, j \in 1..Len(ALIASES) :
      i # j =>
        \A m \in 1..Len(AliasKeys[i].aliasKeys), n \in 1..Len(AliasKeys[j].aliasKeys) :
          AliasKeys[i].aliasKeys[m] # AliasKeys[j].aliasKeys[n]

\* C6: expanding the expanded map again gives the same map, and the expansion of
\* a Field Value Map is the value buildExpandedVars returns for it on every call.
C6_Idempotent ==
  /\ pc = "again" => Properties(again) = Properties(expanded)
  /\ pc = "again" => expanded = buildExpandedVars(vars)

\* {beds: 3} was expanded to three entries and expanded once more
C6_Witness ==
  /\ pc = "again"
  /\ vars = << <<W_beds, <<"3">> >> >>
  /\ Cardinality(Properties(expanded)) = 3
  /\ Properties(again) = Properties(expanded)

(***************************************************************************)
(* Filling of bounded templates                                            *)
(***************************************************************************)

MaxPieces == 2

\* a template is written from pieces: literal text, or a placeholder of one of
\* the five delimiter styles (its number in PLACEHOLDER_PATTERNS)
Text(t) == [kind |-> "text", style |-> 0, raw |-> t]

Placeholder(style, raw) == [kind |-> "placeholder", style |-> style, raw |-> raw]

Written(piece) ==
  IF piece.kind = "text" THEN piece.raw
  ELSE PLACEHOLDER_PATTERNS[piece.style].open \o piece.raw
       \o PLACEHOLDER_PATTERNS[piece.style].close

RECURSIVE Flatten(_)
Flatten(ps) == IF ps = <<>> THEN <<>> ELSE Written(Head(ps)) \o Flatten(Tail(ps))

\* the pieces bounded templates are written from: stray delimiters and plain
\* text, a field name that usually has a value and one that never has in each
\* style, a listing field left blank by default, and numeric phrases
Pieces ==
  << Text(<<"[">>), Text(<<"]">>), Text(<<"(">>), Text(<<")">>), Text(<<",", " ">>) >>
  \o [style \in 1..Len(PLACEHOLDER_PATTERNS) |-> Placeholder(style, W_city)]
  \o [style \in 1..Len(PLACEHOLDER_PATTERNS) |-> Placeholder(style, W_state)]
  \o << Placeholder(1, W_address),
        Placeholder(1, Phrase(<<W_number, W_of, W_beds>>)),
        Placeholder(2, <<"N">> \o Tail(W_number) \o SP \o W_of \o SP
                       \o <<"B">> \o Tail(W_beds)) >>

\* templates written out in full: the worked examples of the documentation, and
\* a bracket and a parenthesis placeholder standing inside parentheses, and a
\* placeholder after a stray opening bracket and after an empty pair of brackets
ExampleTemplates ==
  { << Text(<<"A", " ">>), Placeholder(1, Phrase(<<W_property, W_type>>)),
       Text(SP \o W_in \o SP), Placeholder(1, W_city),
       Text(SP \o W_with \o SP), Placeholder(1, W_bedrooms),
       Text(SP \o W_beds \o <<".">>) >>,
    << Placeholder(2, W_city), Text(<<",", " ">>), Placeholder(1, W_state) >>,
    << Text(<<"(">>), Placeholder(1, W_city), Text(<<")">>) >>,
    << Text(<<"(">>), Placeholder(5, W_city), Text(<<")">>) >>,
    << Text(<<"[">>), Text(W_in \o SP), Placeholder(1, W_city) >>,
    << Text(<<"[">>), Text(<<"]">>), Text(SP), Placeholder(1, W_city) >> }

\* every template of at most MaxPieces pieces, and the examples
Templates ==
  { [n \in 1..Len(f) |-> Pieces[f[n]]] :
      f \in UNION { [1..len -> 1..Len(Pieces)] : len \in 0..MaxPieces } }
  \cup ExampleTemplates

LISTING_FIELDS ==
  << Phrase(<<W_property, W_type>>), W_address, W_city, W_neighborhood,
     W_bedrooms, W_bathrooms, W_sqft, W_price,
     Phrase(<<W_hoa, W_fee>>), Phrase(<<W_year, W_built>>),
     Phrase(<<W_lot, W_size>>), Phrase(<<W_school, W_district>>),
     Phrase(<<W_key, W_features>>),
     Phrase(<<W_neighborhood, W_characteristics>>),
     Phrase(<<W_lifestyle, W_benefits>>), Phrase(<<W_word, W_count>>),
     W_date, Phrase(<<W_start, W_time>>), Phrase(<<W_end, W_time>>),
     Phrase(<<W_lead, W_source>>) >>

Miami == <<"M", "i", "a", "m", "i">>

\* DEFAULT_VARS: every listing field, blank unless the source gives it a value
DEFAULT_VARS ==
  [n \in 1..Len(LISTING_FIELDS) |->
     << LISTING_FIELDS[n],
        IF LISTING_FIELDS[n] = W_city THEN Miami
        ELSE IF LISTING_FIELDS[n] = W_bedrooms THEN <<"3">>
        ELSE IF LISTING_FIELDS[n] = W_bathrooms THEN <<"2">>
        ELSE IF LISTING_FIELDS[n] = Phrase(<<W_key, W_features>>)
             THEN <<"o", "c", "e", "a", "n", " ", "v", "i", "e", "w", "s", ",", " ",
                    "s", "m", "a", "r", "t", "-", "h", "o", "m", "e", ",", " ",
                    "c", "h", "e", "f", RSQUO, "s", " ", "k", "i", "t", "c", "h", "e", "n">>
        ELSE IF LISTING_FIELDS[n] = Phrase(<<W_word, W_count>>) THEN <<"1", "7", "0">>
        ELSE <<>> >>]

\* the Field Value Maps templates are filled from: nothing supplied, the city
\* alone, the map of the worked example, and the form as it first shows
FillVars ==
  { <<>>,
    << <<W_city, Miami>> >>,
    << <<Phrase(<<W_property, W_type>>), <<"c", "o", "n", "d", "o">> >>,
       <<W_city, Miami>>,
       <<W_beds, <<"3">> >> >>,
    DEFAULT_VARS }

InitFill ==
  /\ parts \in Templates
  /\ body = Flatten(parts)
  /\ vars \in FillVars
  /\ filled = null
  /\ refilled = null
  /\ missing = null
  /\ expanded = null
  /\ again = null
  /\ reordered = null
  /\ pc = "template"
  /\ OutsideEngineIdle

\* "Insert listing details": setFilled(fillAcrossDelimiters(prompt.body, expanded))
\* with expanded = useMemo(() => buildExpandedVars(vars), [vars])
Insert ==
  /\ pc = "template"
  /\ expanded' = buildExpandedVars(vars)
  /\ filled' = fillAcrossDelimiters(body, buildExpandedVars(vars))
  /\ pc' = "inserted"
  /\ UNCHANGED <<vars, parts, body, refilled, missing, again, reordered>>
  /\ UNCHANGED outsideEngine

\* the card of the earlier variant renders: filled = applyVars(p.body, vars) and
\* missing = extractPlaceholders(p.body).filter(k => !vars[k]?.trim())
Render ==
  /\ pc = "template"
  /\ filled' = applyVars(body, vars)
  /\ missing' = cardMissing(body, vars)
  /\ pc' = "rendered"
  /\ UNCHANGED <<vars, parts, body, refilled, expanded, again, reordered>>
  /\ UNCHANGED outsideEngine

\* fillAcrossDelimiters on its own output, with the same expanded map
InsertAgain ==
  /\ pc = "inserted"
  /\ refilled' = fillAcrossDelimiters(filled, expanded)
  /\ pc' = "refilled"
  /\ UNCHANGED <<vars, parts, body, filled, missing, expanded, again, reordered>>
  /\ UNCHANGED outsideEngine

NextFill ==
  \/ Insert
  \/ InsertAgain
  \/ Render

SpecFill == InitFill /\ [][NextFill]_allvars

(***************************************************************************)
(* Properties of filling                                                   *)
(***************************************************************************)

Delimiters == {"[", "]", "{", "}", "<", ">", "(", ")"}

DelimiterFree(t) == \A n \in 1..Len(t) : t[n] \notin Delimiters

\* the template is written from placeholders and delimiter-free text only, the
\* placeholders name no inherited property, and no value holds a delimiter
PlainlyWritten(ps, expandedMap) ==
  /\ \A n \in 1..Len(ps) : Len(ps[n].raw) > 0 /\ DelimiterFree(ps[n].raw)
  /\ \A n \in 1..Len(ps) : ~HasOwn(ObjectPrototype, toKey(ps[n].raw))
  /\ \A n \in 1..Len(expandedMap) : DelimiterFree(expandedMap[n][2])

\* what the resolution rule gives for each piece: a placeholder whose normalized
\* inner text has a value becomes that value, any other placeholder becomes its
\* raw inner text in square brackets, text stays
RECURSIVE ByRule(_, _)
ByRule(ps, expandedMap) ==
  IF ps = <<>> THEN <<>>
  ELSE LET piece == Head(ps)
           key   == toKey(piece.raw)
           out   == IF piece.kind = "text" THEN piece.raw
                    ELSE IF HasOwn(expandedMap, key) /\ Own(expandedMap, key) # <<>>
                         THEN Own(expandedMap, key)
                         ELSE <<"[">> \o piece.raw \o <<"]">>
       IN  out \o ByRule(Tail(ps), expandedMap)

NumericPhrase(ps) ==
  \E n \in 1..Len(ps) : ps[n].kind = "placeholder" /\ HasNumberOfAt(ps[n].raw, 1)

\* C7: in a plainly written template, the five delimiter passes replace every
\* occurrence whose normalized inner text has a value in the expanded map by that
\* value, delimiters included, and rewrite every other occurrence to its raw inner
\* text in square brackets; with no numeric phrase in the template this is the
\* filled text.
C7_ResolutionRule ==
  (pc = "inserted" /\ PlainlyWritten(parts, expanded)) =>
    /\ DelimiterPasses(body, 1, expanded) = ByRule(parts, expanded)
    /\ ~NumericPhrase(parts) => filled = ByRule(parts, expanded)

\* "{{city}}, [state]" has been filled from {city: Miami} to "Miami, [state]"
C7_Witness ==
  /\ pc = "inserted"
  /\ parts = << Placeholder(2, W_city), Text(<<",", " ">>), Placeholder(1, W_state) >>
  /\ vars = << <<W_city, Miami>> >>
  /\ filled = Miami \o <<",", " ", "[">> \o W_state \o <<"]">>

\* text holds the literal p somewhere
Occurs(p, text) == \E i \in 1..Len(text) : HasAt(text, i, p)

\* C8: a placeholder's raw inner text is in the card's missing list exactly when
\* that placeholder is left as a bracket-wrapped token in the card's filled text.
C8_MissingAgreesWithOutput ==
  (pc = "rendered" /\ missing # TypeError) =>
    \A n \in 1..Len(extractPlaceholders(body)) :
      LET k == extractPlaceholders(body)[n]
      IN  (\E m \in 1..Len(missing) : missing[m] = k)
          <=> Occurs(<<"[">> \o k \o <<"]">>, filled)

\* the entries of a Field Value Map whose value is not blank
NonBlank(entries) == SelectSeq(entries, LAMBDA e : trim(e[2]) # <<>>)

\* C9: a field with an empty or whitespace-only value counts as absent: the
\* expanded map and the filled text are what they would be without that field.
C9_BlankIsAbsent ==
  /\ pc = "inserted" =>
       /\ expanded = buildExpandedVars(NonBlank(vars))
       /\ filled = fillAcrossDelimiters(body, buildExpandedVars(NonBlank(vars)))
  /\ pc = "rendered" => filled = applyVars(body, NonBlank(vars))

\* the inner texts of the occurrences of one delimiter style, from position i on
RECURSIVE Occurrences(_, _, _)
Occurrences(text, i, pattern) ==
  IF i > Len(text) THEN <<>>
  ELSE LET s == i + Len(pattern.open)
           j == IF HasAt(text, i, pattern.open) /\ s <= Len(text)
                THEN MatchClose(text, s + 1, pattern.close)
                ELSE 0
       IN  IF j = 0 THEN Occurrences(text, i + 1, pattern)
           ELSE <<SubSeq(text, s, j - 1)>>
                \o Occurrences(text, j + Len(pattern.close), pattern)

\* every placeholder of the template, in any style, has its key in the map
AllPresent(text, expandedMap) ==
  \A n \in 1..Len(PLACEHOLDER_PATTERNS) :
    LET found == Occurrences(text, 1, PLACEHOLDER_PATTERNS[n])
    IN  \A m \in 1..Len(found) :
          /\ HasOwn(expandedMap, toKey(found[m]))
          /\ Own(expandedMap, toKey(found[m])) # <<>>

\* C10: when every placeholder of the template has its key in the expanded map,
\* the filled text holds no placeholder occurrence in any of the five styles.
C10_RoundTrip ==
  (pc = "inserted" /\ AllPresent(body, expanded)) =>
    \A n \in 1..Len(PLACEHOLDER_PATTERNS) :
      Occurrences(filled, 1, PLACEHOLDER_PATTERNS[n]) = <<>>

\* C11: with no values supplied, the filled text holds no placeholder of another
\* style than square brackets, and filling the filled text again leaves it as it is.
C11_IdempotentOnMissing ==
  (pc = "refilled" /\ vars = <<>>) =>
    /\ \A n \in 2..Len(PLACEHOLDER_PATTERNS) :
         Occurrences(filled, 1, PLACEHOLDER_PATTERNS[n]) = <<>>
    /\ refilled = filled

\* the map holds a value of its own under the key
HasValue(expandedMap, key) == HasOwn(expandedMap, key) /\ Own(expandedMap, key) # <<>>

\* the candidate keys derived from the X of "number of X": X normalized, that
\* without a final "s", and the latter with "s" appended
Candidates(raw) ==
  LET k        == toKey(SubSeq(raw, Len(NumberOf) + 1, Len(raw)))
      singular == IF k # <<>> /\ k[Len(k)] = "s" THEN SubSeq(k, 1, Len(k) - 1) ELSE k
  IN  << k, singular, singular \o <<"s">> >>

\* the resolution rule with the numeric-phrase fallback: as ByRule, but a
\* placeholder reading "number of X" whose own key has no value takes the value
\* of the first candidate key that has one
RECURSIVE ByRuleWithFallback(_, _)
ByRuleWithFallback(ps, expandedMap) ==
  IF ps = <<>> THEN <<>>
  ELSE LET piece == Head(ps)
           key   == toKey(piece.raw)
           cands == Candidates(piece.raw)
           hits  == { n \in 1..Len(cands) : HasValue(expandedMap, cands[n]) }
           first == CHOOSE n \in hits : \A m \in hits : n <= m
           out   == IF piece.kind = "text" THEN piece.raw
                    ELSE IF HasValue(expandedMap, key) THEN Own(expandedMap, key)
                    ELSE IF HasNumberOfAt(piece.raw, 1) /\ hits # {}
                         THEN Own(expandedMap, cands[first])
                         ELSE <<"[">> \o piece.raw \o <<"]">>
       IN  out \o ByRuleWithFallback(Tail(ps), expandedMap)

\* C12: in a plainly written template, a placeholder reading "number of X" in any
\* letter case and any delimiter style, whose own key has no value, is replaced
\* by the value the expanded map holds for a candidate key derived from X.
C12_NumericFallback ==
  (pc = "inserted" /\ PlainlyWritten(parts, expanded)) =>
    filled = ByRuleWithFallback(parts, expanded)

\* "{{Number of Beds}}[number of beds]" filled from the form as it first shows:
\* "number of beds" is no key of the map, beds is, and both placeholders become 3
C12_Witness ==
  /\ pc = "inserted"
  /\ vars = DEFAULT_VARS
  /\ parts = << Pieces[Len(Pieces)], Pieces[Len(Pieces) - 1] >>
  /\ ~HasValue(expanded, Phrase(<<W_number, W_of, W_beds>>))
  /\ HasValue(expanded, W_beds)
  /\ filled = <<"3", "3">>

\* the text ends with the literal p
EndsWith(text, p) ==
  /\ Len(p) <= Len(text)
  /\ SubSeq(text, Len(text) - Len(p) + 1, Len(text)) = p

\* C13: a well-formed bracket placeholder whose key has a value in the expanded
\* map is replaced by that value whatever text stands before it in the template.
C13_NonGreedy ==
  ( /\ pc = "inserted"
    /\ Len(parts) >= 1
    /\ parts[Len(parts)].kind = "placeholder"
    /\ parts[Len(parts)].style = 1
    /\ HasValue(expanded, toKey(parts[Len(parts)].raw))
    /\ \A n \in 1..(Len(parts) - 1) : parts[n].kind = "text" ) =>
    EndsWith(filled, Own(expanded, toKey(parts[Len(parts)].raw)))

(***************************************************************************)
(* The engine on the inputs at the edge of its domain: empty and           *)
(* unbalanced templates, nested delimiters, names of inherited properties, *)
(* and maps whose labels normalize to the empty key                        *)
(***************************************************************************)
X == <<"x">>

Wrapped(open, raw, close) == open \o raw \o close

EdgeTemplates ==
  { <<>>,
    <<"[">>,
    <<"]", "[">>,
    <<"[", "]">>,
    <<"{", "{", "}", "}">>,
    Wrapped(<<"[", "[">>, W_city, <<"]", "]">>),
    Wrapped(<<"(", "(">>, W_city, <<")", ")">>),
    Wrapped(<<"{", "{">>, W_city, <<"}">>),
    Wrapped(<<"<", "(">>, W_city, <<">", ")">>),
    Wrapped(<<"[">>, <<"/">>, <<"]">>),
    Wrapped(<<"[", "[">>, <<"/">>, <<"]">>),
    Wrapped(<<"[">>, KeyConstructor, <<"]">>),
    Wrapped(<<"{">>, KeyProto, <<"}">>),
    Wrapped(<<"[">>, W_number \o SP \o W_of \o SP, <<"]">>),
    Wrapped(<<"[">>, W_number \o SP \o W_of \o SP \o SP, <<"]">>),
    Wrapped(<<"[">>, W_number \o SP \o W_of \o SP \o KeyConstructor \o <<"s">>, <<"]">>),
    Wrapped(<<"[">>, NumberOf \o Phrase(<<W_beds, W_baths>>), <<"]">>),
    Wrapped(<<"[">>, W_city, <<"]">>) }

EdgeMaps ==
  { <<>>,
    << <<<<"/">>, X>> >>,
    << <<<<>>, X>> >>,
    << <<<<"/">>, X>>, <<<<"!">>, Miami>> >>,
    << <<KeyProto, X>>, <<W_city, Miami>> >>,
    << <<KeyConstructor, X>> >>,
    << <<W_city, <<" ">> >> >>,
    << <<<<"b", "e", "d">> \o SP \o W_baths, X>> >>,
    << <<W_city, Miami \o <<" ", "(", "F", "L", ")">> >> >> }

InitEdge ==
  /\ vars \in EdgeMaps
  /\ body \in EdgeTemplates
  /\ parts = << Text(body) >>
  /\ filled = null
  /\ refilled = null
  /\ missing = null
  /\ expanded = null
  /\ again = null
  /\ reordered = null
  /\ OutsideEngineIdle
  /\ pc = "template"

\* toKey(key) for the key of entry n, as the first loop of buildExpandedVars calls it
NormalizeLabel(n) ==
  /\ pc = "template"
  /\ str' = vars[n][1]
  /\ strKey' = toKey(vars[n][1])
  /\ UNCHANGED <<engineVars, uiVars, strVariant, strVariantKey, strRekey, pc>>

NextEdge ==
  \/ \E n \in 1..2 : n <= Len(vars) /\ NormalizeLabel(n)
  \/ Insert
  \/ InsertAgain

SpecEdge == InitEdge /\ [][NextEdge]_allvars

\* a JavaScript string: a sequence of characters, none of them the mark of
\* null, of undefined or of a thrown error
IsString(s) ==
  /\ s \notin {null, undefined, TypeError}
  /\ \A i \in 1..Len(s) : <<s[i]>> \notin {null, undefined, TypeError}

IsStringMap(obj) ==
  \A n \in 1..Len(obj) : IsString(obj[n][1]) /\ IsString(obj[n][2])

\* C16: the engine is total: toKey, buildExpandedVars and fillAcrossDelimiters
\* return a string, a map of strings and a string, and raise no error, on the
\* empty template, the empty map, labels that normalize to the empty key and
\* templates with unbalanced or nested delimiters
C16_Total ==
  /\ strKey # null => IsString(strKey)
  /\ pc \in {"inserted", "refilled"} => IsStringMap(expanded) /\ IsString(filled)
  /\ pc = "refilled" => IsString(refilled)

\* the label "/" normalizes to the empty key, and the unbalanced "[[/]" is
\* filled through it
C16_Witness ==
  /\ pc = "refilled"
  /\ vars = << <<<<"/">>, X>> >>
  /\ strKey = <<>>
  /\ body = <<"[", "[", "/", "]">>
  /\ expanded = << <<<<>>, X>> >>
  /\ filled = X

(***************************************************************************)
(* The page: the listing form and one prompt card. The card of             *)
(* unnamed/part_002 schedules an effect on [prompt.body, vars] that clears *)
(* its filled text; the card of src/App.tsx has no such effect.            *)
(***************************************************************************)
Cards == {"unnamed/part_002", "src/App.tsx"}

Austin == <<"A", "u", "s", "t", "i", "n">>

\* the fields edited and what is typed into them
CardFields == {W_city, W_bedrooms, W_address}

CardValues == {<<>>, Miami, Austin, <<"4">>}

\* prompt.body of the card
CardTemplates ==
  { << Placeholder(1, W_city) >>,
    << Placeholder(1, W_beds), Text(SP \o W_beds \o SP \o W_in \o SP), Placeholder(2, W_city) >>,
    << Placeholder(1, W_address), Text(<<",", " ">>), Placeholder(1, W_state) >> }

\* the first render: useState({...}) of the form, useState(null) and useMemo of the card
InitCard ==
  /\ card \in Cards
  /\ effectPending = FALSE
  /\ vars = DEFAULT_VARS
  /\ parts \in CardTemplates
  /\ body = Flatten(parts)
  /\ filled = null
  /\ refilled = null
  /\ missing = null
  /\ expanded = buildExpandedVars(DEFAULT_VARS)
  /\ again = null
  /\ reordered = null
  /\ KeyIdle
  /\ CopyIdle
  /\ DatasetIdle
  /\ pc = "card"

\* onChange of a field: setVars(previous => ({...previous, [label]: value})); the
\* page renders again, the card's useMemo recomputes expanded, its filled state
\* is kept, and where the card has the effect on [prompt.body, vars] it is scheduled
EditField(label, value) ==
  /\ ~effectPending
  /\ Get(vars, label) # value
  /\ vars' = Put(vars, label, value)
  /\ expanded' = buildExpandedVars(Put(vars, label, value))
  /\ effectPending' = (card = "unnamed/part_002")
  /\ pc' = "edited"
  /\ UNCHANGED <<parts, body, filled, refilled, missing, again, reordered, keyVars, copyVars, datasetVars, card>>

\* useEffect(() => { setFilled(null); }, [prompt.body, vars])
ResetEffect ==
  /\ effectPending
  /\ filled' = null
  /\ effectPending' = FALSE
  /\ pc' = "reset"
  /\ UNCHANGED <<vars, parts, body, refilled, missing, expanded, again, reordered, keyVars, copyVars, datasetVars, card>>

\* "Insert listing details": setFilled(fillAcrossDelimiters(prompt.body, expanded))
InsertClick ==
  /\ ~effectPending
  /\ filled' = fillAcrossDelimiters(body, expanded)
  /\ pc' = "clicked"
  /\ UNCHANGED <<vars, parts, body, refilled, missing, expanded, again, reordered, keyVars, copyVars, datasetVars, cardVars>>

\* the form with every field at the empty string
Emptied(entries) == [n \in 1..Len(entries) |-> <<entries[n][1], <<>> >>]

\* "Clear": clearInputs of unnamed/part_002 is setVars({ ...DEFAULT_VARS }), the
\* handler of src/App.tsx is setVars(v => Object.fromEntries(Object.keys(v).map(k
\* => [k, ""]))); the page renders again as after an edit
ClearInputs ==
  /\ ~effectPending
  /\ vars' = (IF card = "unnamed/part_002" THEN DEFAULT_VARS ELSE Emptied(vars))
  /\ expanded' = buildExpandedVars(IF card = "unnamed/part_002" THEN DEFAULT_VARS
                                   ELSE Emptied(vars))
  /\ effectPending' = (card = "unnamed/part_002")
  /\ pc' = "cleared"
  /\ UNCHANGED <<parts, body, filled, refilled, missing, again, reordered, keyVars, copyVars, datasetVars, card>>

NextCard ==
  \/ \E label \in CardFields, value \in CardValues : EditField(label, value)
  \/ ClearInputs
  \/ ResetEffect
  \/ InsertClick

SpecCard == InitCard /\ [][NextCard]_allvars

\* C17: after any sequence of field edits and Insert clicks, the filled text
\* the card displays, and would copy, is the fill of the template from the
\* current field values, never one computed from older values
C17_FilledNeverStale ==
  (card \in Cards /\ ~effectPending /\ filled # null) =>
    filled = fillAcrossDelimiters(body, buildExpandedVars(vars))

(***************************************************************************)
(* Copy: safeCopy of unnamed/part_002 (clipboard API, then the textarea    *)
(* and execCommand fallback) under the card's Copy handler, and safeCopy   *)
(* of unnamed/part_000 (clipboard API only). What the browser does is      *)
(* chosen freely at each call.                                             *)
(***************************************************************************)
Copiers == {"unnamed/part_002", "unnamed/part_000"}

\* the second try block without its catch: an exception leaves safeCopy as a rejection
FallbackResult_Uncaught(outcome) ==
  IF outcome = "true" THEN "true"
  ELSE IF outcome = "false" THEN "false"
  ELSE "rejected"

\* the second try block: return ok, and return false from the catch
FallbackResult(outcome) ==
  IF outcome = "true" THEN "true" ELSE "false"

\* a write that reads the card when it is carried out: the filled text the card
\* holds by then, or the prompt
WrittenText_CurrentBody ==
  IF filled = null THEN body ELSE filled

\* what safeCopy writes: its parameter text, the string value of currentBody
\* passed at the click
WrittenText ==
  copyText

\* the textarea fallback, with what document.execCommand("copy") did: copyResult,
\* the clipboard, and whether the textarea is still in the document (an exception
\* of execCommand skips removeChild; one of createElement comes before appendChild)
Fallback(outcome, t) ==
  /\ execCommand' = outcome
  /\ copyResult' = FallbackResult(outcome)
  /\ clipboard' = IF outcome = "true" THEN t ELSE clipboard
  /\ attached' = (outcome = "threw")

\* the card shows the prompt, or a fill of it, and no copy was asked for
InitCopy ==
  /\ copier \in Copiers
  /\ writeText = "not called"
  /\ execCommand = "not called"
  /\ copyResult = "none"
  /\ copyText = null
  /\ clipboard = null
  /\ attached = FALSE
  /\ alerted = FALSE
  /\ vars = DEFAULT_VARS
  /\ parts \in CardTemplates
  /\ body = Flatten(parts)
  /\ expanded = buildExpandedVars(DEFAULT_VARS)
  /\ filled \in {null, fillAcrossDelimiters(Flatten(parts), buildExpandedVars(DEFAULT_VARS))}
  /\ refilled = null
  /\ missing = null
  /\ again = null
  /\ reordered = null
  /\ KeyIdle
  /\ CardIdle
  /\ DatasetIdle
  /\ pc = "idle"

\* Copy is clicked: safeCopy(currentBody) runs to its first await or to its return.
\* api: navigator.clipboard.writeText is absent, throws, or returns a promise
CopyClick(api, outcome) ==
  /\ pc = "idle"
  /\ copyText' = (IF filled = null THEN body ELSE filled)
  /\ IF api = "pending"
     THEN /\ writeText' = "pending"
          /\ pc' = "writing"
          /\ UNCHANGED <<execCommand, copyResult, clipboard, attached>>
     ELSE /\ writeText' = api
          /\ pc' = "returned"
          /\ IF copier = "unnamed/part_000"
             THEN /\ copyResult' = "false"
                  /\ UNCHANGED <<execCommand, clipboard, attached>>
             ELSE Fallback(outcome, IF filled = null THEN body ELSE filled)
  /\ UNCHANGED <<engineVars, keyVars, cardVars, datasetVars, copier, alerted>>

\* the promise of writeText settles and safeCopy runs on to its return
WriteSettles(settled, outcome) ==
  /\ pc = "writing"
  /\ writeText' = settled
  /\ pc' = "returned"
  /\ IF settled = "resolved"
     THEN /\ copyResult' = "true"
          /\ clipboard' = WrittenText
          /\ UNCHANGED <<execCommand, attached>>
     ELSE IF copier = "unnamed/part_000"
          THEN /\ copyResult' = "false"
               /\ UNCHANGED <<execCommand, clipboard, attached>>
          ELSE Fallback(outcome, WrittenText)
  /\ UNCHANGED <<engineVars, keyVars, cardVars, datasetVars, copier, copyText, alerted>>

\* the Copy handler of the card after its await: if (!ok) alert(...); a
\* rejection of safeCopy would leave the handler before the test
HandlerResumes ==
  /\ pc = "returned"
  /\ copier = "unnamed/part_002"
  /\ alerted' = (copyResult = "false")
  /\ pc' = "done"
  /\ UNCHANGED <<engineVars, keyVars, cardVars, datasetVars, copier, writeText, execCommand,
                 copyResult, copyText, clipboard, attached>>

\* a listing field is edited before Copy or while the write is pending: the card
\* renders with the new vars and its effect on [prompt.body, vars] sets filled
\* to null
EditDuringCopy(label, value) ==
  /\ pc \in {"idle", "writing"}
  /\ copier = "unnamed/part_002"
  /\ Get(vars, label) # value
  /\ vars' = Put(vars, label, value)
  /\ expanded' = buildExpandedVars(Put(vars, label, value))
  /\ filled' = null
  /\ UNCHANGED <<parts, body, refilled, missing, again, reordered, keyVars, cardVars, copyVars,
                 datasetVars, pc>>

\* "Insert listing details" is clicked before Copy or while the write is pending
InsertDuringCopy ==
  /\ pc \in {"idle", "writing"}
  /\ copier = "unnamed/part_002"
  /\ filled' = fillAcrossDelimiters(body, expanded)
  /\ UNCHANGED <<vars, parts, body, refilled, missing, expanded, again, reordered, keyVars,
                 cardVars, copyVars, datasetVars, pc>>

ExecOutcomes == {"true", "false", "threw", "no document"}

NextCopy ==
  \/ \E api \in {"absent", "threw", "pending"}, outcome \in ExecOutcomes : CopyClick(api, outcome)
  \/ \E settled \in {"resolved", "rejected"}, outcome \in ExecOutcomes : WriteSettles(settled, outcome)
  \/ HandlerResumes
  \/ \E label \in CardFields, value \in CardValues : EditDuringCopy(label, value)
  \/ InsertDuringCopy

SpecCopy == InitCopy /\ [][NextCopy]_allvars

\* C18: safeCopy never rejects; it resolves to true exactly when the
\* clipboard API write succeeded or, that failing, the textarea fallback
\* reported success, and to false otherwise; and the card's Copy handler
\* shows the manual-selection alert exactly when the result is false
C18_CopyOutcomeIsBoolean ==
  /\ pc \in {"returned", "done"} =>
       /\ copyResult \in {"true", "false"}
       /\ copyResult = "true" <=>
            \/ writeText = "resolved"
            \/ writeText # "resolved" /\ execCommand = "true"
  /\ pc = "done" => (alerted <=> copyResult = "false")
  /\ pc \in {"idle", "writing", "returned"} => ~alerted

\* the API write is rejected, the fallback reports failure, the alert is shown
C18_Witness ==
  /\ pc = "done"
  /\ copier = "unnamed/part_002"
  /\ writeText = "rejected"
  /\ execCommand = "false"
  /\ copyResult = "false"
  /\ clipboard = null
  /\ alerted

(***************************************************************************)
(* buildExpandedVars and fillAcrossDelimiters called, and called again     *)
(* with the same arguments: a second render of the card and a second click *)
(* on "Insert listing details"                                             *)
(***************************************************************************)
\* the card renders again and Insert is clicked again, vars and prompt.body
\* being what they were: buildExpandedVars(vars), then
\* setFilled(fillAcrossDelimiters(prompt.body, expanded)). Neither function
\* assigns to a property of an argument
InsertRepeat ==
  /\ pc = "inserted"
  /\ again' = buildExpandedVars(vars)
  /\ refilled' = fillAcrossDelimiters(body, buildExpandedVars(vars))
  /\ pc' = "repeated"
  /\ UNCHANGED <<vars, parts, body, filled, missing, expanded, reordered>>
  /\ UNCHANGED outsideEngine

NextRepeat ==
  \/ Insert
  \/ InsertRepeat

SpecRepeat == InitFill /\ [][NextRepeat]_allvars

Hello == <<"H", "e", "l", "l", "o">>

\* what a field of a record holds: nothing (the field is absent), null, the
\* empty string, or text
FieldContents == { undefined, null, <<>>, Hello, <<"[">> \o W_city \o <<"]">> }

\* a ?? b
Coalesce(a, b) == IF a = undefined \/ a = null THEN b ELSE a

InitDataset ==
  /\ rawPrompt \in [body : FieldContents, text : FieldContents, prompt : FieldContents]
  /\ promptBody = null
  /\ EngineIdle
  /\ KeyIdle
  /\ CardIdle
  /\ CopyIdle
  /\ pc = "record"

\* body: prompt.body ?? (prompt as any).text ?? (prompt as any).prompt ?? ""
NormalizeRecord ==
  /\ pc = "record"
  /\ promptBody' = Coalesce(rawPrompt.body,
                      Coalesce(rawPrompt.text, Coalesce(rawPrompt.prompt, <<>>)))
  /\ pc' = "prompt"
  /\ UNCHANGED <<engineVars, keyVars, cardVars, copyVars, rawPrompt>>

NextDataset == NormalizeRecord

SpecDataset == InitDataset /\ [][NextDataset]_allvars

\* a field that holds text: present, not null, and not the empty string
NonEmptyField(x) == x # undefined /\ x # null /\ x # <<>>

\* C20: the template of a Prompt is the first non-empty of the record's
\* fields body, text, prompt, and the empty string when none holds text
C20_FirstNonEmptyField ==
  pc = "prompt" =>
    promptBody = IF NonEmptyField(rawPrompt.body) THEN rawPrompt.body
                 ELSE IF NonEmptyField(rawPrompt.text) THEN rawPrompt.text
                 ELSE IF NonEmptyField(rawPrompt.prompt) THEN rawPrompt.prompt
                 ELSE <<>>

(***************************************************************************)
(* Further properties of the expansion                                     *)
(***************************************************************************)

\* the value of the first of the alias keys the given entries hold a value for
RECURSIVE FirstExplicit(_, _)
FirstExplicit(given, aliasKeys) ==
  IF aliasKeys = <<>> THEN undefined
  ELSE IF ExplicitValue(given, Head(aliasKeys)) # undefined
       THEN ExplicitValue(given, Head(aliasKeys))
       ELSE FirstExplicit(given, Tail(aliasKeys))

\* C21: a canonical name the Field Value Map gives no value takes the value of
\* the first alias, in the declared order of its alias list, that the map gives
\* a value; a canonical name with a value of its own keeps it
C21_FirstAliasWins ==
  pc = "expanded" =>
    LET given == Given(vars)
    IN  \A i \in 1..Len(ALIASES) :
          LET own   == ExplicitValue(given, AliasKeys[i].canonicalKey)
              first == FirstExplicit(given, AliasKeys[i].aliasKeys)
          IN  /\ own # undefined => Get(expanded, AliasKeys[i].canonicalKey) = own
              /\ (own = undefined /\ first # undefined) =>
                   Get(expanded, AliasKeys[i].canonicalKey) = first

\* {bathrooms: "4 ", baths: 3} has been expanded: "number of bathrooms" is 4,
\* the value of bathrooms, the first alias of its list
C21_Witness ==
  /\ pc = "expanded"
  /\ vars = << <<W_bathrooms, <<"4", " ">> >>, <<W_baths, <<"3">> >> >>
  /\ Get(expanded, Phrase(<<W_number, W_of, W_bathrooms>>)) = <<"4">>
  /\ Get(expanded, W_baths) = <<"3">>

(***************************************************************************)
(* Further properties of filling                                           *)
(***************************************************************************)

\* the template is one bracket placeholder "[number of P]", P free of
\* delimiters and of line breaks, and no candidate key names an inherited property
OneNumericPlaceholder(template) ==
  /\ Len(template) > Len(NumberOf) + 2
  /\ template[1] = "[" /\ template[Len(template)] = "]"
  /\ HasNumberOfAt(template, 2)
  /\ \A n \in 2..(Len(template) - 1) : template[n] \notin Delimiters /\ IsDot(template[n])
  /\ LET raw == SubSeq(template, 2, Len(template) - 1)
     IN  /\ ~HasOwn(ObjectPrototype, toKey(raw))
         /\ \A n \in 1..3 : ~HasOwn(ObjectPrototype, Candidates(raw)[n])

\* C22: for "[number of P]" whose own key has no value, the candidate keys are
\* normalize(P), normalize(P) without an "s" that ends the phrase, and that
\* singular form with "s" appended; the first candidate with a value is used,
\* and without one the placeholder stays, also for a phrase P of several words
C22_CandidateKeys ==
  (pc = "inserted" /\ OneNumericPlaceholder(body)) =>
    LET raw   == SubSeq(body, 2, Len(body) - 1)
        cands == Candidates(raw)
        hits  == { n \in 1..Len(cands) : HasValue(expanded, cands[n]) }
    IN  filled = IF HasValue(expanded, toKey(raw)) THEN Own(expanded, toKey(raw))
                 ELSE IF hits # {}
                      THEN Own(expanded, cands[CHOOSE n \in hits : \A m \in hits : n <= m])
                      ELSE body

EmptyBrackets == <<"[", "]">>

\* C23: "[]" is an occurrence with the empty key: the card reports it missing,
\* no field value replaces it, and the text after it is filled as it would be
\* filled on its own
C23_EmptyPlaceholder ==
  /\ (pc = "rendered" /\ missing # TypeError /\ Occurs(EmptyBrackets, body)) =>
       \E n \in 1..Len(missing) : missing[n] = <<>>
  /\ (pc = "inserted" /\ HasAt(body, 1, EmptyBrackets)) =>
       filled = EmptyBrackets \o fillAcrossDelimiters(SubSeq(body, 3, Len(body)), expanded)

\* n copies of a text, one after the other
RECURSIVE Copies(_, _)
Copies(t, n) == IF n = 0 THEN <<>> ELSE t \o Copies(t, n - 1)

\* the template is one placeholder, plainly written, two or more times over
RepeatedPlaceholder(ps, expandedMap) ==
  /\ Len(ps) >= 2
  /\ ps[1].kind = "placeholder"
  /\ \A n \in 1..Len(ps) : ps[n] = ps[1]
  /\ PlainlyWritten(ps, expandedMap)

\* C24: every occurrence of a repeated placeholder is substituted, and with the
\* same text, by fillAcrossDelimiters and by the card's applyVars; and the
\* card's missing list names no placeholder twice, a repeated placeholder
\* without a value exactly once
C24_RepeatedPlaceholders ==
  /\ (pc = "inserted" /\ RepeatedPlaceholder(parts, expanded)) =>
       filled = Copies(fillAcrossDelimiters(Written(parts[1]), expanded), Len(parts))
  /\ (pc = "rendered" /\ RepeatedPlaceholder(parts, vars) /\ parts[1].style = 1) =>
       /\ filled = Copies(applyVars(Written(parts[1]), vars), Len(parts))
       /\ \A m, n \in 1..Len(missing) : missing[m] = missing[n] => m = n
       /\ ~HasOwn(vars, parts[1].raw) => missing = << parts[1].raw >>

\* "[state][state]" on the card with {city: Miami}: both occurrences stay, and
\* state is in the missing list once
C24_Witness ==
  /\ pc = "rendered"
  /\ vars = << <<W_city, Miami>> >>
  /\ parts = << Placeholder(1, W_state), Placeholder(1, W_state) >>
  /\ filled = Flatten(parts)
  /\ missing = << W_state >>

\* the template is one bracket placeholder, its inner text free of delimiters
\* and naming no inherited property
OneBracketPlaceholder(template) ==
  /\ Len(template) > 2
  /\ template[1] = "[" /\ template[Len(template)] = "]"
  /\ \A n \in 2..(Len(template) - 1) : template[n] \notin Delimiters /\ IsDot(template[n])
  /\ ~HasOwn(ObjectPrototype, toKey(SubSeq(template, 2, Len(template) - 1)))

\* C25: a value that fill puts in the place of a placeholder stands in the
\* filled text as it is, whatever delimiter characters it holds: no later pass
\* rewrites it or substitutes into it
C25_ValuesVerbatim ==
  ( /\ pc = "inserted"
    /\ OneBracketPlaceholder(body)
    /\ HasValue(expanded, toKey(SubSeq(body, 2, Len(body) - 1))) ) =>
    filled = Own(expanded, toKey(SubSeq(body, 2, Len(body) - 1)))

\* the template is one placeholder in the given style, its inner text free of
\* delimiters and no numeric phrase
OnePlaceholder(template, style) ==
  LET open  == PLACEHOLDER_PATTERNS[style].open
      close == PLACEHOLDER_PATTERNS[style].close
  IN  /\ Len(template) > Len(open) + Len(close)
      /\ HasAt(template, 1, open)
      /\ HasAt(template, Len(template) - Len(close) + 1, close)
      /\ \A n \in (Len(open) + 1)..(Len(template) - Len(close)) :
           template[n] \notin Delimiters /\ IsDot(template[n])
      /\ ~HasNumberOfAt(template, Len(open) + 1)

InnerText(template, style) ==
  SubSeq(template, Len(PLACEHOLDER_PATTERNS[style].open) + 1,
         Len(template) - Len(PLACEHOLDER_PATTERNS[style].close))

\* C26: a placeholder is substituted only by a value that buildExpandedVars
\* stored in the expanded map: one whose key the map does not hold, the names of
\* inherited properties such as constructor and __proto__ among them, becomes
\* its raw inner text in square brackets
C26_OnlyStoredValues ==
  pc = "inserted" =>
    \A style \in 1..Len(PLACEHOLDER_PATTERNS) :
      ( /\ OnePlaceholder(body, style)
        /\ ~HasValue(expanded, toKey(InnerText(body, style))) ) =>
        filled = <<"[">> \o InnerText(body, style) \o <<"]">>

\* C27: every entry of the map buildExpandedVars returns has a key in canonical
\* form, toKey(k) = k, and a value that is a non-empty string without leading
\* or trailing whitespace
C27_EntriesWellFormed ==
  pc = "expanded" =>
    \A n \in 1..Len(expanded) :
      /\ IsString(expanded[n][1]) /\ IsString(expanded[n][2])
      /\ toKey(expanded[n][1]) = expanded[n][1]
      /\ expanded[n][2] # <<>>
      /\ trim(expanded[n][2]) = expanded[n][2]

\* {Beds: "4 ", price: 3} has been expanded: the keys are beds, price and the
\* other names of the bedrooms group, the values 4 and 3
C27_Witness ==
  /\ pc = "expanded"
  /\ vars = << << <<"B">> \o Tail(W_beds), <<"4", " ">> >>, <<W_price, <<"3">> >> >>
  /\ Keys(expanded) = {W_beds, W_price, W_bedrooms, Phrase(<<W_number, W_of, W_bedrooms>>)}
  /\ Get(expanded, W_beds) = <<"4">>
  /\ Get(expanded, W_price) = <<"3">>

(***************************************************************************)
(* Further properties of the page                                          *)
(***************************************************************************)

\* C28: after "Clear" every listing field is the empty string, the expansion
\* of the form is the empty map, and an Insert would substitute no placeholder
C28_ClearEmptiesForm ==
  pc = "cleared" =>
    /\ \A n \in 1..Len(vars) : vars[n][2] = <<>>
    /\ expanded = EmptyObject
    /\ fillAcrossDelimiters(body, expanded) = ByRule(parts, EmptyObject)

\* the text the card displays: currentBody
Displayed == IF filled = null THEN body ELSE filled

\* C29: the text Copy hands to the clipboard is the text the card displayed when
\* Copy was clicked; edits and Insert clicks during the pending write change
\* neither what is to be written nor what is written
C29_CopiesTextAtClick ==
  [][ /\ (pc = "idle" /\ pc' # "idle") => copyText' = Displayed
      /\ pc # "idle" => copyText' = copyText
      /\ clipboard' # clipboard => clipboard' = copyText' ]_allvars

\* the write has succeeded after the card came to display another text
C29_Witness ==
  /\ pc = "done"
  /\ copier = "unnamed/part_002"
  /\ writeText = "resolved"
  /\ clipboard = copyText
  /\ clipboard # Displayed
  /\ filled # null

\* C30: the fallback of safeCopy leaves no textarea in the document, whatever
\* document.execCommand("copy") did
C30_TextareaRemoved ==
  pc \in {"returned", "done"} => ~attached

====
